---- MODULE Spec2Model ----
(***************************************************************************)
(* State-machine model of neurokernel's MPI process layer                  *)
(* (src/neurokernel/mpi_proc.py): environment capture (funcvars,           *)
(* allglobalvars), the worker side (Process) and the spawning side         *)
(* (ProcessManager), over an MPI transport with non-overtaking, tagged,    *)
(* point-to-point messages.                                                *)
(***************************************************************************)
EXTENDS Integers, Sequences, FiniteSets, TLC

(***************************************************************************)
(* Python objects the model computes with.  An object is named by a        *)
(* string; its kind decides what the inspect predicates answer.            *)
(***************************************************************************)
Modules == {"numpy", "numpy.linalg", "mpi4py.MPI", "twiggy"}
Builtins == {"numpy.zeros"}
Values == {"K=7", "COMM_WORLD", "five", "text", "numpy.pi"}
\* Instances of classes of the model: instance -> its class
InstanceOf == ("plain_obj" :> "Plain") @@ ("c_obj" :> "C")
Instances == DOMAIN InstanceOf

\* Python functions (the im_func of a method, or a module-level function):
\* co_names in code order, and the module whose globals they see.
FuncTab ==
  [ Process_init   |-> [names |-> <<"LoggerMixin", "__init__", "MPI", "COMM_WORLD",
                                    "Get_rank", "set_excepthook", "logger",
                                    "_args", "_kwargs">>, globals |-> "mpi_proc"],
    Process_run    |-> [names |-> <<>>, globals |-> "mpi_proc"],
    Process_send_parent |-> [names |-> <<"intercomm", "send">>, globals |-> "mpi_proc"],
    Process_recv_parent |-> [names |-> <<"intercomm", "recv">>, globals |-> "mpi_proc"],
    Process_send_peer   |-> [names |-> <<"intracomm", "send">>, globals |-> "mpi_proc"],
    Process_recv_peer   |-> [names |-> <<"intracomm", "recv">>, globals |-> "mpi_proc"],
    LoggerMixin_init |-> [names |-> <<"twiggy", "log", "name", "logger">>,
                          globals |-> "mixins"],
    set_excepthook |-> [names |-> <<"sys", "excepthook">>, globals |-> "mixins"],
    WorkerA_run    |-> [names |-> <<"np", "zeros", "send_parent">>, globals |-> "user"],
    WorkerB_run    |-> [names |-> <<"np", "linalg", "norm", "K">>, globals |-> "user"],
    Plain_run      |-> [names |-> <<"K">>, globals |-> "user"],
    helper         |-> [names |-> <<"np", "zeros", "linalg", "pi", "ndarray", "norm">>,
                        globals |-> "user"],
    A_f            |-> [names |-> <<"ga", "K">>, globals |-> "user"],
    A_h            |-> [names |-> <<"gh", "local_only">>, globals |-> "user"],
    B_g            |-> [names |-> <<"gb", "np", "linalg">>, globals |-> "user"],
    C_f            |-> [names |-> <<"gc">>, globals |-> "user"] ]

Functions == DOMAIN FuncTab

\* Classes: base classes in declaration order and the methods each class
\* defines itself (method name -> function).
ClassTab ==
  [ LoggerMixin |-> [bases |-> <<>>, methods |-> ("__init__" :> "LoggerMixin_init")],
    Process     |-> [bases |-> <<"LoggerMixin">>,
                     methods |-> ("__init__" :> "Process_init") @@
                                 ("run" :> "Process_run") @@
                                 ("send_parent" :> "Process_send_parent") @@
                                 ("recv_parent" :> "Process_recv_parent") @@
                                 ("send_peer" :> "Process_send_peer") @@
                                 ("recv_peer" :> "Process_recv_peer")],
    WorkerA     |-> [bases |-> <<"Process">>, methods |-> ("run" :> "WorkerA_run")],
    WorkerB     |-> [bases |-> <<"Process">>, methods |-> ("run" :> "WorkerB_run")],
    Plain       |-> [bases |-> <<>>, methods |-> ("run" :> "Plain_run")],
    A           |-> [bases |-> <<>>, methods |-> ("f" :> "A_f") @@ ("h" :> "A_h")],
    B           |-> [bases |-> <<"A">>, methods |-> ("g" :> "B_g")],
    C           |-> [bases |-> <<"B">>, methods |-> ("f" :> "C_f")] ]

Classes == DOMAIN ClassTab

\* Module-level namespaces (func_globals).
GlobalsTab ==
  [ mpi_proc |-> [MPI |-> "mpi4py.MPI", LoggerMixin |-> "LoggerMixin",
                  set_excepthook |-> "set_excepthook", twiggy |-> "twiggy"],
    mixins   |-> [twiggy |-> "twiggy"],
    user     |-> [np |-> "numpy", K |-> "K=7", Process |-> "Process",
                  WorkerA |-> "WorkerA", WorkerB |-> "WorkerB", Plain |-> "Plain",
                  ga |-> "five", gb |-> "text", gc |-> "K=7", gh |-> "helper"] ]

\* Attributes of module objects (what hasattr/getattr see).
AttrTab ==
  ("numpy" :> [zeros |-> "numpy.zeros", linalg |-> "numpy.linalg",
               pi |-> "numpy.pi", ndarray |-> "Plain"]) @@
  ("numpy.linalg" :> [norm |-> "helper"]) @@
  ("mpi4py.MPI" :> [COMM_WORLD |-> "COMM_WORLD"]) @@
  ("twiggy" :> [log |-> "five"])

\* Method names in the order inspect.getmembers lists them (sorted by name).
MemberOrder ==
  <<"__init__", "f", "g", "h", "recv_parent", "recv_peer", "run", "send_parent",
    "send_peer">>

isfunction(x) == x \in Functions
ismodule(x) == x \in Modules
isclass(x) == x \in Classes
\* inspect.isroutine: builtins, functions and methods.  A method is named
\* here by the function it wraps (im_func), so ismethod is covered by
\* isfunction.
isroutine(x) == x \in Functions \cup Builtins

hasattr(o, name) ==
  \/ o \in DOMAIN AttrTab /\ name \in DOMAIN AttrTab[o]
  \/ o \in Classes /\ name \in DOMAIN ClassTab[o].methods

getattr(o, name) ==
  IF o \in DOMAIN AttrTab THEN AttrTab[o][name] ELSE ClassTab[o].methods[name]

\* A dict update d[k] = v, and d.update(e): the right-hand side wins.
DictSet(d, k, v) == (k :> v) @@ d
DictUpdate(d, e) == e @@ d
EmptyDict == [k \in {} |-> "none"]

\* The loop body adding the dotted path of any attribute, module or not
FuncVarsStepAnyAttr(results, name, global_dict) ==
  IF name \in DOMAIN global_dict
  THEN DictSet(results, <<name>>, global_dict[name])
  ELSE LET hits == {r \in DOMAIN results : hasattr(results[r], name)}
       IN  DictUpdate(results,
                      [p \in {Append(r, name) : r \in hits} |->
                         getattr(results[SubSeq(p, 1, Len(p) - 1)], name)])

\* Body of the loop "for name in name_list" of funcvars.  A symbol path is
\* the sequence of its dot-separated components.
FuncVarsStep(results, name, global_dict) ==
  IF name \in DOMAIN global_dict
  THEN DictSet(results, <<name>>, global_dict[name])
  ELSE LET hits == {r \in DOMAIN results :
                      /\ hasattr(results[r], name)
                      /\ ismodule(getattr(results[r], name))}
       IN  DictUpdate(results,
                      [p \in {Append(r, name) : r \in hits} |->
                         getattr(results[SubSeq(p, 1, Len(p) - 1)], name)])

RECURSIVE FuncVarsLoop(_, _, _)
FuncVarsLoop(results, name_list, global_dict) ==
  IF name_list = <<>> THEN results
  ELSE FuncVarsLoop(FuncVarsStep(results, Head(name_list), global_dict),
                    Tail(name_list), global_dict)

\* funcvars(x): [err, val]; err is the exception raised, "none" if none.
funcvars(x) ==
  IF isfunction(x)
  THEN [err |-> "none",
        val |-> FuncVarsLoop(EmptyDict, FuncTab[x].names, GlobalsTab[FuncTab[x].globals])]
  ELSE [err |-> "ValueError", val |-> EmptyDict]

\* inspect.getmembers(x, predicate=inspect.ismethod) of a class or of an
\* instance: every method name visible on x, resolved along the base
\* classes; no member of any other object is a method.
RECURSIVE Resolve(_, _)
Resolve(cls, name) ==
  IF name \in DOMAIN ClassTab[cls].methods THEN {ClassTab[cls].methods[name]}
  ELSE LET found == {i \in DOMAIN ClassTab[cls].bases :
                       Resolve(ClassTab[cls].bases[i], name) # {}}
       IN  IF found = {} THEN {}
           ELSE Resolve(ClassTab[cls].bases[CHOOSE i \in found :
                                              \A j \in found : i <= j], name)

getmembers(x) ==
  LET cls == IF isclass(x) THEN x ELSE InstanceOf[x]
      idx == {i \in DOMAIN MemberOrder : Resolve(cls, MemberOrder[i]) # {}}
      f[i \in 0..Len(MemberOrder)] ==
        IF i = 0 THEN <<>>
        ELSE IF i \in idx
             THEN Append(f[i-1], CHOOSE m \in Resolve(cls, MemberOrder[i]) : TRUE)
             ELSE f[i-1]
  IN  IF isclass(x) \/ x \in Instances THEN f[Len(MemberOrder)] ELSE <<>>

\* allglobalvars(x): [err, val].  An exception raised by a nested call
\* propagates.
RECURSIVE allglobalvars(_)
RECURSIVE AllGlobalVarsFold(_, _)
AllGlobalVarsFold(acc, xs) ==
  IF xs = <<>> \/ acc.err # "none" THEN acc
  ELSE LET r == allglobalvars(Head(xs))
       IN  IF r.err # "none" THEN [err |-> r.err, val |-> acc.val]
           ELSE AllGlobalVarsFold([err |-> "none", val |-> DictUpdate(acc.val, r.val)],
                                  Tail(xs))

\* allglobalvars looking at the members of x only, not at its base classes
allglobalvars_members_only(x) ==
  IF isroutine(x) THEN funcvars(x)
  ELSE AllGlobalVarsFold([err |-> "none", val |-> EmptyDict], getmembers(x))

allglobalvars(x) ==
  IF isroutine(x) THEN funcvars(x)
  ELSE LET afterBases ==
             IF isclass(x)
             THEN AllGlobalVarsFold([err |-> "none", val |-> EmptyDict], ClassTab[x].bases)
             ELSE [err |-> "none", val |-> EmptyDict]
       IN  AllGlobalVarsFold(afterBases, getmembers(x))

\* allglobalvars tabulated over the objects of the model
Objects == Classes \cup Functions \cup Modules \cup Builtins \cup Values \cup Instances
Captured == [x \in Objects |-> allglobalvars(x)]

(***************************************************************************)
(* Bounds of the model and the inputs the operations are called with.      *)
(***************************************************************************)
MaxUnits == 2      \* registered work units (and so ranks) at most
MaxRuns == 2       \* Spawn calls at most
MaxSends == 2      \* application-level sends at most

Ranks == 0..(MaxUnits - 1)
Tags == {0, 1}
ANY_TAG == -1
ANY_SOURCE == -2
Payloads == {"done", "x"}

\* Arguments add() is called with: (target, args, kwargs); kwargs is the set
\* of its (name, value) pairs.
AddInputs ==
  { <<"WorkerA", <<1, 2>>, {}>>,
    <<"WorkerB", <<>>, {<<"b", 5>>, <<"c", 6>>}>>,
    <<"Plain", <<1, 2>>, {}>>,
    <<"five", <<>>, {}>> }

VARIABLES
  is_parent,   \* ProcessManager._is_parent (memoized)
  targets,     \* ProcessManager._targets
  args,        \* ProcessManager._args
  kwargs,      \* ProcessManager._kwargs
  intercomm,   \* ProcessManager._intercomm
  spawned,     \* maxprocs of every Spawn call made so far
  mpc,         \* where the manager is: "idle", or inside run(): "cfg", "data"
  mi,          \* loop variable i of the current loop of run()
  mn,          \* len(self) the current loop of run() ranges over
  sent,        \* sends issued by the current run(), in order
  err,         \* exception the manager's last call raised, "none" if none
  op,          \* the manager's last call
  nadd,        \* number of add() calls that returned normally
  napp,        \* number of application-level sends made
  seqno,       \* per channel, the number of messages sent on it
  p2c,         \* p2c[r]: messages parent -> rank r in flight
  c2p,         \* c2p[r]: messages rank r -> parent in flight
  peer,        \* peer[s][d]: messages rank s -> rank d in flight
  wpc,         \* wpc[r]: "none", launcher waiting for "cfg" / "unit", or "run"
  wgot,        \* wgot[r]: messages rank r received from the parent, in order
  pgot,        \* pgot[r]: messages rank r received from peers, in order
  mgot,        \* messages the manager received, in order
  ev,          \* a call of funcvars / allglobalvars: argument, stage, result
  rt           \* a RoutingTable: its _data and what its last call raised

reg == <<targets, args, kwargs>>
ext == <<ev, rt>>
mstate == <<is_parent, ext, intercomm, spawned, mpc, mi, mn, sent>>
chans == <<p2c, c2p, peer>>
wstate == <<wpc, wgot, pgot>>
mvars == <<is_parent, targets, args, kwargs, intercomm, spawned, mpc, mi, mn,
           sent, err, op, nadd, napp, seqno, p2c, c2p, peer, wpc, wgot, pgot,
           mgot>>
vars == <<mvars, ev, rt>>

COMM_NULL == [id |-> 0, size |-> 0]

EmptyChan == [r \in Ranks |-> <<>>]
EmptyPeer == [s \in Ranks |-> [d \in Ranks |-> <<>>]]
ZeroSeqno == [p2c |-> [r \in Ranks |-> 0], c2p |-> [r \in Ranks |-> 0],
              peer |-> [s \in Ranks |-> [d \in Ranks |-> 0]]]

\* No call of funcvars / allglobalvars under way
EvIdle == [x |-> "none", pc |-> "idle", out |-> [err |-> "none", val |-> EmptyDict]]

\* No RoutingTable constructed
NoTable == [none |-> TRUE, label |-> <<>>, cells |-> <<>>]
NoneArg == [isnone |-> TRUE, larry |-> FALSE, haslabel |-> FALSE, label |-> <<>>]
RtIdle == [built |-> FALSE, arg |-> NoneArg, data |-> NoTable, used |-> {},
           err |-> "none", op |-> "none"]

ManagerInit ==
  /\ is_parent \in BOOLEAN
  /\ targets = <<>> /\ args = <<>> /\ kwargs = <<>>
  /\ intercomm = COMM_NULL
  /\ spawned = <<>>
  /\ mpc = "idle" /\ mi = 0 /\ mn = 0 /\ sent = <<>>
  /\ err = "none" /\ op = "init" /\ nadd = 0 /\ napp = 0 /\ seqno = ZeroSeqno
  /\ p2c = EmptyChan /\ c2p = EmptyChan /\ peer = EmptyPeer
  /\ wpc = [r \in Ranks |-> "none"]
  /\ wgot = EmptyChan /\ pgot = EmptyChan /\ mgot = <<>>

Init == ManagerInit /\ ev = EvIdle /\ rt = RtIdle

(***************************************************************************)
(* The MPI transport: comm.send(obj, dest, tag) appends to the channel to  *)
(* dest; comm.recv(source, tag) takes, from one source, the earliest       *)
(* message the tag matches (messages of one sender do not overtake).       *)
(* A message records, besides what MPI carries (body, source, tag), the    *)
(* rank and the tag its sender was called with and its number on the       *)
(* channel.                                                                *)
(***************************************************************************)
Msg(kind, body, unit, src, to, tag, req, n) ==
  [kind |-> kind, body |-> body, unit |-> unit, src |-> src, to |-> to,
   tag |-> tag, req |-> req, id |-> n + 1]

TagMatch(want, tag) == want = ANY_TAG \/ want = tag

Matching(q, want) == {k \in DOMAIN q : TagMatch(want, q[k].tag)}

\* A receive taking the latest matching message
LastMatch(q, want) == CHOOSE k \in Matching(q, want) : \A j \in Matching(q, want) : k >= j

FirstMatch(q, want) == CHOOSE k \in Matching(q, want) : \A j \in Matching(q, want) : k <= j

Remove(q, k) == SubSeq(q, 1, k - 1) \o SubSeq(q, k + 1, Len(q))

(***************************************************************************)
(* ProcessManager                                                          *)
(***************************************************************************)
RECURSIVE issubclass(_, _)
issubclass(c, base) ==
  \/ c = base
  \/ \E i \in DOMAIN ClassTab[c].bases : issubclass(ClassTab[c].bases[i], base)

\* What "assert issubclass(target, Process)" raises.
AddCheck(target) ==
  IF ~isclass(target) THEN "TypeError"
  ELSE IF ~issubclass(target, "Process") THEN "AssertionError"
  ELSE "none"

\* ProcessManager.__len__
len_self == Len(targets)

\* add() appending before it checks the target
add_then_check(target, a, k) ==
  /\ mpc = "idle"
  /\ op' = "add"
  /\ err' = AddCheck(target)
  /\ targets' = Append(targets, target)
  /\ args' = Append(args, a)
  /\ kwargs' = Append(kwargs, k)
  /\ nadd' = IF AddCheck(target) = "none" THEN nadd + 1 ELSE nadd
  /\ UNCHANGED <<mstate, napp, seqno, chans, wstate, mgot>>

\* add() putting the new unit in front of the registered ones
add_in_front(target, a, k) ==
  /\ mpc = "idle"
  /\ op' = "add"
  /\ err' = AddCheck(target)
  /\ IF AddCheck(target) = "none"
     THEN /\ targets' = <<target>> \o targets
          /\ args' = <<a>> \o args
          /\ kwargs' = <<k>> \o kwargs
          /\ nadd' = nadd + 1
     ELSE UNCHANGED <<reg, nadd>>
  /\ UNCHANGED <<mstate, napp, seqno, chans, wstate, mgot>>

\* ProcessManager.add(target, *args, **kwargs)
add(target, a, k) ==
  /\ mpc = "idle"
  /\ op' = "add"
  /\ err' = AddCheck(target)
  /\ IF AddCheck(target) = "none"
     THEN /\ targets' = Append(targets, target)
          /\ args' = Append(args, a)
          /\ kwargs' = Append(kwargs, k)
          /\ nadd' = nadd + 1
     ELSE UNCHANGED <<reg, nadd>>
  /\ UNCHANGED <<mstate, napp, seqno, chans, wstate, mgot>>

\* Spawn asked for one process more than there are units
SpawnMaxprocsPlusOne == len_self + 1

\* maxprocs of the Spawn call of run()
SpawnMaxprocs == len_self

\* run() without the test of the role
AnyRole == TRUE

\* The test "if self._is_parent" of run()
InSpawningRole == is_parent

\* run() starting with the loop that sends the work units
FirstLoopData == "data"

\* The loop run() enters after Spawn: the one sending the logging emitters
FirstLoop == "cfg"

\* intercomm.send handing the message over only once the receiver has taken
\* the previous one
SendRendezvous(dest) == p2c[dest] = <<>>

\* intercomm.send(obj, dest) in run(): the message is buffered and the call
\* returns, whatever the process at dest is doing
SendReady(dest) == dest \in Ranks

\* ProcessManager.run(), up to and including Spawn.  In a spawned process
\* the call returns at once.  Spawn starts maxprocs launcher processes on a
\* new intercommunicator; the manager drops its reference to the previous
\* one, whose processes the model then leaves out.
run_spawn ==
  /\ mpc = "idle"
  /\ op' = "run"
  /\ err' = "none"
  /\ IF InSpawningRole
     THEN /\ intercomm' = [id |-> Len(spawned) + 1, size |-> SpawnMaxprocs]
          /\ spawned' = Append(spawned, SpawnMaxprocs)
          /\ mn' = len_self
          /\ mi' = 0
          /\ mpc' = IF len_self = 0 THEN "idle" ELSE FirstLoop
          /\ sent' = <<>>
          /\ seqno' = ZeroSeqno
          /\ p2c' = EmptyChan /\ c2p' = EmptyChan /\ peer' = EmptyPeer
          /\ wpc' = [r \in Ranks |-> IF r < SpawnMaxprocs THEN "cfg" ELSE "none"]
          /\ wgot' = EmptyChan /\ pgot' = EmptyChan
          /\ UNCHANGED <<is_parent, ext, reg, nadd, napp, mgot>>
     ELSE UNCHANGED <<mstate, reg, nadd, napp, seqno, chans, wstate, mgot>>

\* Every send of a loop going to rank 0
CfgDestZero(i) == 0
DataDestZero(i) == 0

\* Destination of the i-th send of each loop of run()
CfgDest(i) == i
DataDest(i) == i

\* One iteration of "for i in xrange(len(self)): send(twiggy.emitters, i)"
run_send_cfg ==
  /\ mpc = "cfg"
  /\ SendReady(CfgDest(mi))
  /\ p2c' = [p2c EXCEPT ![CfgDest(mi)] =
               Append(@, Msg("cfg", "emitters", <<>>, 0, mi, 0, 0,
                             seqno.p2c[CfgDest(mi)]))]
  /\ seqno' = [seqno EXCEPT !.p2c[CfgDest(mi)] = @ + 1]
  /\ sent' = Append(sent, [to |-> CfgDest(mi), kind |-> "cfg"])
  /\ IF mi + 1 < mn
     THEN mi' = mi + 1 /\ UNCHANGED <<mpc, mn>>
     ELSE mi' = 0 /\ mn' = len_self /\ mpc' = "data"
  /\ UNCHANGED <<is_parent, ext, intercomm, spawned, reg, err, op, nadd, napp,
                 c2p, peer, wstate, mgot>>

\* The tuple built with the arguments of the last registered unit
UnitDataLastArgs(i) ==
  <<targets[i + 1], Captured[targets[i + 1]].val, args[Len(args)],
    kwargs[Len(kwargs)]>>

\* The tuple the i-th iteration of the second loop of run() builds
UnitData(i) ==
  <<targets[i + 1], Captured[targets[i + 1]].val, args[i + 1], kwargs[i + 1]>>

\* One iteration of the second loop of run(); an exception raised by
\* allglobalvars ends run().
run_send_data ==
  /\ mpc = "data"
  /\ SendReady(DataDest(mi))
  /\ IF Captured[targets[mi + 1]].err # "none"
     THEN /\ err' = Captured[targets[mi + 1]].err
          /\ mpc' = "idle"
          /\ UNCHANGED <<mi, mn, sent, seqno, p2c>>
     ELSE /\ p2c' = [p2c EXCEPT ![DataDest(mi)] =
                       Append(@, Msg("unit", "unit", UnitData(mi), 0, mi, 0, 0,
                                     seqno.p2c[DataDest(mi)]))]
          /\ seqno' = [seqno EXCEPT !.p2c[DataDest(mi)] = @ + 1]
          /\ sent' = Append(sent, [to |-> DataDest(mi), kind |-> "unit"])
          /\ IF mi + 1 < mn
             THEN mi' = mi + 1 /\ UNCHANGED <<mpc, mn>>
             ELSE mi' = 0 /\ mpc' = "idle" /\ UNCHANGED mn
          /\ UNCHANGED err
  /\ UNCHANGED <<is_parent, ext, intercomm, spawned, reg, op, nadd, napp,
                 c2p, peer, wstate, mgot>>

\* The tag ProcessManager.send passes on to intercomm.send
SendTag(tag) == 0

\* send() addressing rank 0 whatever dest is
SendDestZero(dest) == 0

\* The rank ProcessManager.send passes on to intercomm.send
SendDest(dest) == dest

\* ProcessManager.send(data, dest, tag)
send(data, dest, tag) ==
  /\ mpc = "idle"
  /\ op' = "send"
  /\ IF intercomm = COMM_NULL \/ SendDest(dest) >= intercomm.size
     THEN /\ err' = "MPIError"
          /\ UNCHANGED <<napp, seqno, p2c>>
     ELSE /\ err' = "none"
          /\ p2c' = [p2c EXCEPT ![SendDest(dest)] =
                       Append(@, Msg("app", data, <<>>, 0, dest, SendTag(tag), tag,
                                     seqno.p2c[SendDest(dest)]))]
          /\ seqno' = [seqno EXCEPT !.p2c[SendDest(dest)] = @ + 1]
          /\ napp' = napp + 1
  /\ UNCHANGED <<mstate, reg, nadd, c2p, peer, wstate, mgot>>

\* recv() receiving from rank 0 only
recv_rank0(tag) ==
  /\ mpc = "idle"
  /\ op' = "recv"
  /\ IF intercomm = COMM_NULL
     THEN /\ err' = "MPIError"
          /\ UNCHANGED <<c2p, mgot>>
     ELSE /\ Matching(c2p[0], tag) # {}
          /\ err' = "none"
          /\ mgot' = Append(mgot, c2p[0][FirstMatch(c2p[0], tag)])
          /\ c2p' = [c2p EXCEPT ![0] = Remove(@, FirstMatch(c2p[0], tag))]
  /\ UNCHANGED <<mstate, reg, nadd, napp, seqno, p2c, peer, wstate>>

\* ProcessManager.recv(tag): blocks until a message the tag matches is there.
recv(tag) ==
  /\ mpc = "idle"
  /\ op' = "recv"
  /\ IF intercomm = COMM_NULL
     THEN /\ err' = "MPIError"
          /\ UNCHANGED <<c2p, mgot>>
     ELSE \E r \in Ranks :
            /\ Matching(c2p[r], tag) # {}
            /\ err' = "none"
            /\ mgot' = Append(mgot, c2p[r][FirstMatch(c2p[r], tag)])
            /\ c2p' = [c2p EXCEPT ![r] = Remove(@, FirstMatch(c2p[r], tag))]
  /\ UNCHANGED <<mstate, reg, nadd, napp, seqno, p2c, peer, wstate>>

(***************************************************************************)
(* The launcher that runs in each spawned process (mpi_backend.py): it     *)
(* receives the logging configuration, then the work unit, then            *)
(* instantiates the class and calls its run().                             *)
(***************************************************************************)
launcher_recv(r) ==
  /\ wpc[r] \in {"cfg", "unit"}
  /\ p2c[r] # <<>>
  /\ wgot' = [wgot EXCEPT ![r] = Append(@, Head(p2c[r]))]
  /\ p2c' = [p2c EXCEPT ![r] = Tail(@)]
  /\ wpc' = [wpc EXCEPT ![r] = IF @ = "cfg" THEN "unit" ELSE "run"]
  /\ UNCHANGED <<mstate, reg, err, op, nadd, napp, seqno, c2p, peer, pgot, mgot>>

(***************************************************************************)
(* Process (the worker), once its run() is executing                       *)
(***************************************************************************)
\* Process.send_parent(data, tag)
send_parent(r, data, tag) ==
  /\ wpc[r] = "run"
  /\ c2p' = [c2p EXCEPT ![r] = Append(@, Msg("app", data, <<>>, r, 0, tag, tag,
                                             seqno.c2p[r]))]
  /\ seqno' = [seqno EXCEPT !.c2p[r] = @ + 1]
  /\ napp' = napp + 1
  /\ UNCHANGED <<mstate, reg, err, op, nadd, p2c, peer, wstate, mgot>>

\* Process.recv_parent(tag)
recv_parent(r, tag) ==
  /\ wpc[r] = "run"
  /\ Matching(p2c[r], tag) # {}
  /\ wgot' = [wgot EXCEPT ![r] = Append(@, p2c[r][FirstMatch(p2c[r], tag)])]
  /\ p2c' = [p2c EXCEPT ![r] = Remove(@, FirstMatch(p2c[r], tag))]
  /\ UNCHANGED <<mstate, reg, err, op, nadd, napp, seqno, c2p, peer, wpc, pgot, mgot>>

\* Process.send_peer(data, dest, tag)
send_peer(r, data, dest, tag) ==
  /\ wpc[r] = "run"
  /\ dest < intercomm.size
  /\ peer' = [peer EXCEPT ![r][dest] =
                Append(@, Msg("app", data, <<>>, r, dest, tag, tag, seqno.peer[r][dest]))]
  /\ seqno' = [seqno EXCEPT !.peer[r][dest] = @ + 1]
  /\ napp' = napp + 1
  /\ UNCHANGED <<mstate, reg, err, op, nadd, p2c, c2p, wstate, mgot>>

\* Process.recv_peer(source, tag)
recv_peer(r, source, tag) ==
  /\ wpc[r] = "run"
  /\ \E s \in Ranks :
       /\ source \in {ANY_SOURCE, s}
       /\ Matching(peer[s][r], tag) # {}
       /\ pgot' = [pgot EXCEPT ![r] = Append(@, peer[s][r][FirstMatch(peer[s][r], tag)])]
       /\ peer' = [peer EXCEPT ![s][r] = Remove(@, FirstMatch(peer[s][r], tag))]
  /\ UNCHANGED <<mstate, reg, err, op, nadd, napp, seqno, p2c, c2p, wpc, wgot, mgot>>

(***************************************************************************)
(* Spec: the life cycle of a manager (registration, run(), the launchers   *)
(* starting), under every registration input.                              *)
(***************************************************************************)
Add ==
  \E inp \in AddInputs :
    /\ AddCheck(inp[1]) = "none" => len_self < MaxUnits
    /\ add(inp[1], inp[2], inp[3])

Run ==
  /\ InSpawningRole => Len(spawned) < MaxRuns
  /\ run_spawn

LauncherRecv == \E r \in Ranks : launcher_recv(r)

Next ==
  \/ Add
  \/ Run
  \/ run_send_cfg
  \/ run_send_data
  \/ LauncherRecv

Spec == Init /\ [][Next]_vars

(***************************************************************************)
(* SpecMsg: one run() of a manager of WorkerA units, then messages between *)
(* the manager and its workers and among the workers.                      *)
(***************************************************************************)
WorkerInputs ==
  { <<"WorkerA", <<1, 2>>, {}>>,
    <<"WorkerB", <<>>, {<<"b", 5>>, <<"c", 6>>}>> }

AddWorker ==
  /\ len_self < MaxUnits
  /\ \E inp \in WorkerInputs : add(inp[1], inp[2], inp[3])

RunOnce ==
  /\ InSpawningRole => spawned = <<>>
  /\ run_spawn

Send ==
  \E data \in Payloads, dest \in Ranks, tag \in Tags :
    /\ napp < MaxSends
    /\ send(data, dest, tag)

Recv == \E tag \in Tags \cup {ANY_TAG} : recv(tag)

SendParent ==
  \E r \in Ranks, data \in Payloads, tag \in Tags :
    /\ napp < MaxSends
    /\ send_parent(r, data, tag)

RecvParent == \E r \in Ranks, tag \in Tags \cup {ANY_TAG} : recv_parent(r, tag)

SendPeer ==
  \E r \in Ranks, data \in Payloads, dest \in Ranks, tag \in Tags :
    /\ napp < MaxSends
    /\ send_peer(r, data, dest, tag)

RecvPeer ==
  \E r \in Ranks, source \in Ranks \cup {ANY_SOURCE}, tag \in Tags \cup {ANY_TAG} :
    recv_peer(r, source, tag)

NextMsg ==
  \/ AddWorker
  \/ RunOnce
  \/ run_send_cfg
  \/ run_send_data
  \/ LauncherRecv
  \/ Send
  \/ Recv
  \/ SendParent
  \/ RecvParent
  \/ SendPeer
  \/ RecvPeer

SpecMsg == Init /\ [][NextMsg]_vars

(***************************************************************************)
(* SpecDone: the manager registers its units, calls run() once and then    *)
(* recv() once per spawned rank; the run() of every worker calls           *)
(* send_parent("done") once.  Every process keeps running: each step that  *)
(* stays possible is eventually taken.                                     *)
(***************************************************************************)
AddFirst ==
  /\ spawned = <<>>
  /\ \E inp \in AddInputs :
       /\ AddCheck(inp[1]) = "none" => len_self < MaxUnits
       /\ add(inp[1], inp[2], inp[3])

WorkerDone(r) ==
  /\ seqno.c2p[r] = 0
  /\ send_parent(r, "done", 0)

WorkersDone == \E r \in Ranks : WorkerDone(r)

RecvAny ==
  /\ Len(mgot) < intercomm.size
  /\ recv(ANY_TAG)

NextDone ==
  \/ AddFirst
  \/ RunOnce
  \/ run_send_cfg
  \/ run_send_data
  \/ LauncherRecv
  \/ WorkersDone
  \/ RecvAny

SpecDone ==
  /\ Init /\ [][NextDone]_vars
  /\ WF_vars(run_send_cfg) /\ WF_vars(run_send_data) /\ WF_vars(RecvAny)
  /\ \A r \in Ranks : WF_vars(launcher_recv(r)) /\ WF_vars(WorkerDone(r))

(***************************************************************************)
(* SpecEnv: funcvars and allglobalvars applied to each object of the       *)
(* model.                                                                  *)
(***************************************************************************)
InitEnv ==
  /\ ManagerInit
  /\ rt = RtIdle
  /\ ev \in {[x |-> o, pc |-> "start", out |-> EvIdle.out] : o \in Objects}

call_funcvars ==
  /\ ev.pc = "start"
  /\ ev' = [ev EXCEPT !.pc = "funcvars", !.out = funcvars(ev.x)]
  /\ UNCHANGED <<mvars, rt>>

call_allglobalvars ==
  /\ ev.pc = "start"
  /\ ev' = [ev EXCEPT !.pc = "allglobalvars", !.out = allglobalvars(ev.x)]
  /\ UNCHANGED <<mvars, rt>>

NextEnv ==
  \/ call_funcvars
  \/ call_allglobalvars

SpecEnv == InitEnv /\ [][NextEnv]_vars

(***************************************************************************)
(* RoutingTable (src/routing_table.py).  A labeled array (la.larry) is its *)
(* list of label lists, one per dimension, and its cells; a cell that a    *)
(* merge leaves without a value is not in the domain of cells.             *)
(***************************************************************************)
MaxIds == 2        \* identifiers used as row or column at most

Ids == 1..MaxIds
CellValues == {1}

Range(q) == {q[i] : i \in DOMAIN q}

RECURSIVE SortedSeq(_)
SortedSeq(S) ==
  IF S = {} THEN <<>>
  ELSE LET m == CHOOSE x \in S : \A y \in S : x <= y
       IN  <<m>> \o SortedSeq(S \ {m})

\* la.larry(x, [rows, cols]) with every cell of the 2-D array x equal to v
Larry2(rows, cols, v) ==
  [none |-> FALSE, label |-> <<rows, cols>>,
   cells |-> [p \in Range(rows) \X Range(cols) |-> v]]

\* larry.merge(other): the union of the labels of each dimension, the cells
\* of both
merge(a, b) ==
  [none |-> FALSE,
   label |-> <<SortedSeq(Range(a.label[1]) \cup Range(b.label[1])),
               SortedSeq(Range(a.label[2]) \cup Range(b.label[2]))>>,
   cells |-> b.cells @@ a.cells]

\* Arrays the constructor is called with
TInputs ==
  { [isnone |-> FALSE, larry |-> TRUE, haslabel |-> TRUE, label |-> <<<<1, 2>>, <<1, 2>>>>],
    [isnone |-> FALSE, larry |-> TRUE, haslabel |-> TRUE, label |-> <<<<1, 2>>, <<2, 1>>>>],
    [isnone |-> FALSE, larry |-> TRUE, haslabel |-> TRUE, label |-> <<<<1>>, <<1, 2>>>>],
    [isnone |-> FALSE, larry |-> TRUE, haslabel |-> TRUE, label |-> <<<<1, 2>>>>],
    [isnone |-> FALSE, larry |-> TRUE, haslabel |-> TRUE, label |-> <<<<1>>, <<1>>, <<1>>>>],
    [isnone |-> FALSE, larry |-> FALSE, haslabel |-> TRUE, label |-> <<<<1>>, <<2>>>>],
    [isnone |-> FALSE, larry |-> FALSE, haslabel |-> TRUE, label |-> <<>>],
    [isnone |-> FALSE, larry |-> FALSE, haslabel |-> FALSE, label |-> <<>>] }

\* The try block of __init__: the two comparisons are evaluated and their
\* values dropped; t.label raises without the attribute and t.label[0]
\* raises on an empty list.
InitRaises(t) == ~t.haslabel \/ t.label = <<>>

\* t.copy(): the cells of a 2-D array are modelled, as zeros
CopyOf(t) ==
  IF Len(t.label) = 2 THEN Larry2(t.label[1], t.label[2], 0)
  ELSE [none |-> FALSE, label |-> t.label, cells |-> <<>>]

\* RoutingTable.__init__(t)
RoutingTable(t) ==
  IF t.isnone
  THEN [built |-> TRUE, arg |-> t, data |-> NoTable, used |-> {},
        err |-> "none", op |-> "init"]
  ELSE IF InitRaises(t)
       THEN [built |-> FALSE, arg |-> t, data |-> NoTable, used |-> {},
             err |-> "ValueError", op |-> "init"]
       ELSE [built |-> TRUE, arg |-> t, data |-> CopyOf(t), used |-> {},
             err |-> "none", op |-> "init"]

\* Keys of an assignment: a slice, or a sequence of identifiers
KeyInputs ==
  {[slice |-> TRUE, k |-> <<>>]} \cup
  {[slice |-> FALSE, k |-> <<r>>] : r \in Ids} \cup
  {[slice |-> FALSE, k |-> <<r, c>>] : r \in Ids, c \in Ids} \cup
  {[slice |-> FALSE, k |-> <<r, r, r>>] : r \in Ids}

\* "Create new row" and "Create new column" for identifier k
NewRow(d, k) ==
  IF k \notin Range(d.label[1])
  THEN merge(d, Larry2(<<k>>, d.label[2], 0))
  ELSE d

\* An assignment that creates no column
NoNewColumn(d, k) == d

NewColumn(d, k) ==
  IF k \notin Range(d.label[2])
  THEN merge(d, Larry2(d.label[1], <<k>>, 0))
  ELSE d

\* The loop "for k in key" of __setitem__
RECURSIVE AddLabels(_, _)
AddLabels(d, key) ==
  IF key = <<>> THEN d
  ELSE AddLabels(NewColumn(NewRow(d, Head(key)), Head(key)), Tail(key))

\* self._data before the final set(): built from the key when there is no
\* array yet
Prepared(d, key) ==
  IF d.none
  THEN Larry2(SortedSeq(Range(key)), SortedSeq(Range(key)), 0)
  ELSE AddLabels(d, key)

\* larry.set([row, col], value)
SetCell(d, row, col, value) ==
  [d EXCEPT !.cells = (<<row, col>> :> value) @@ d.cells]

\* RoutingTable.__setitem__(key, value), on a table that is empty or 2-D
setitem(key, value) ==
  /\ rt.built
  /\ rt.data.none \/ Len(rt.data.label) = 2
  /\ IF key.slice
     THEN rt' = [rt EXCEPT !.err = "ValueError", !.op = "setitem"]
     ELSE IF Len(key.k) # 2
     THEN rt' = [rt EXCEPT !.err = "KeyError", !.op = "setitem"]
     ELSE rt' = [rt EXCEPT !.err = "none", !.op = "setitem",
                           !.data = SetCell(Prepared(rt.data, key.k),
                                            key.k[1], key.k[2], value),
                           !.used = @ \cup Range(key.k)]
  /\ UNCHANGED <<mvars, ev>>

(***************************************************************************)
(* SpecRT: a RoutingTable constructed from each initial array, then any    *)
(* sequence of assignments.                                                *)
(***************************************************************************)
InitRT ==
  /\ ManagerInit
  /\ ev = EvIdle
  /\ rt \in {RoutingTable(t) : t \in TInputs \cup {NoneArg}}

SetItem == \E key \in KeyInputs, value \in CellValues : setitem(key, value)

NextRT == SetItem

SpecRT == InitRT /\ [][NextRT]_vars

(***************************************************************************)
(* Properties                                                              *)
(***************************************************************************)
Last(q) == q[Len(q)]
Count(q, kind, to) == Cardinality({k \in DOMAIN q : q[k].kind = kind /\ q[k].to = to})
Spawning == is_parent /\ op = "run"
RunReturned == Spawning /\ mpc = "idle" /\ err = "none"

\* C1: count() equals the number of add() calls that succeeded, and a run()
\* in the spawning role requests maxprocs = that number and gets a
\* communicator of that many launcher processes.
C1_CountAndSpawn ==
  /\ len_self = nadd
  /\ Len(args) = nadd /\ Len(kwargs) = nadd
  /\ Spawning =>
       /\ Last(spawned) = nadd
       /\ intercomm.size = nadd
       /\ Cardinality({r \in Ranks : wpc[r] # "none"}) = nadd

C1_Witness == Spawning /\ nadd = MaxUnits /\ Last(spawned) = MaxUnits

\* C2: add() with a target that is not a subclass of Process raises, and
\* leaves targets, args and kwargs as they were.
NotAWorker(target) == ~(isclass(target) /\ issubclass(target, "Process"))

C3_CfgBeforeUnit ==
  /\ \A k \in DOMAIN sent :
       /\ sent[k].to \in 0..(intercomm.size - 1)
       /\ Count(sent, sent[k].kind, sent[k].to) = 1
       /\ sent[k].kind = "unit" =>
            \E j \in 1..(k - 1) : sent[j].kind = "cfg" /\ sent[j].to = sent[k].to
  /\ RunReturned =>
       \A i \in 0..(len_self - 1) :
         Count(sent, "cfg", i) = 1 /\ Count(sent, "unit", i) = 1

C3_Witness == RunReturned /\ len_self = MaxUnits /\ Len(sent) = 2 * MaxUnits

\* C4 as claimed: between the configuration send to rank i and the
\* work-unit send to rank i no send to another rank is issued.
C4_UnbrokenPerRank ==
  \A a \in DOMAIN sent : \A b \in DOMAIN sent :
    (a < b /\ sent[a].kind = "cfg" /\ sent[b].to # sent[a].to) =>
      \E c \in (a + 1)..(b - 1) : sent[c].kind = "unit" /\ sent[c].to = sent[a].to

\* C4 amended: run() issues the configuration to every rank in rank order
\* and only then the work-unit tuples in rank order, so that between the two
\* sends to rank i lie exactly the configuration sends to the ranks above i
\* and the work-unit sends to the ranks below i.
C4_TwoPasses ==
  \A k \in DOMAIN sent :
    IF k <= intercomm.size
    THEN sent[k] = [to |-> k - 1, kind |-> "cfg"]
    ELSE sent[k] = [to |-> k - 1 - intercomm.size, kind |-> "unit"]

C4_Witness == RunReturned /\ intercomm.size >= 2 /\ Len(sent) = 2 * intercomm.size

\* C5: the work-unit tuple on its way to rank i, or received at rank i, is
\* the class, args and kwargs of the i-th add() with the environment
\* captured for that class.
IsUnitOf(m, r) ==
  /\ r + 1 \in DOMAIN targets
  /\ m.unit[1] = targets[r + 1]
  /\ m.unit[3] = args[r + 1]
  /\ m.unit[4] = kwargs[r + 1]
  /\ m.unit[2] = allglobalvars(m.unit[1]).val

C5_UnitOfItsRank ==
  \A r \in Ranks :
    /\ \A k \in DOMAIN p2c[r] : p2c[r][k].kind = "unit" => IsUnitOf(p2c[r][k], r)
    /\ \A k \in DOMAIN wgot[r] : wgot[r][k].kind = "unit" => IsUnitOf(wgot[r][k], r)
    /\ (RunReturned /\ r < len_self) =>
         Cardinality({k \in DOMAIN p2c[r] : p2c[r][k].kind = "unit"}) +
         Cardinality({k \in DOMAIN wgot[r] : wgot[r][k].kind = "unit"}) = 1

C5_Witness ==
  /\ RunReturned
  /\ targets = <<"WorkerA", "WorkerB">>
  /\ wpc[0] = "run" /\ wpc[1] = "run"
  /\ Last(wgot[0]).unit[3] = <<1, 2>>
  /\ Last(wgot[1]).unit[4] = {<<"b", 5>>, <<"c", 6>>}

\* C6 as claimed: a message ProcessManager.send was called with tag T for
\* is one that a recv_parent(tag=T) at its rank matches.
C6_SentTagDelivered ==
  \A r \in Ranks : \A k \in DOMAIN p2c[r] :
    p2c[r][k].kind = "app" => k \in Matching(p2c[r], p2c[r][k].req)

\* C7: whatever the parent sent to rank i (configuration, work unit, or a
\* send(payload, i)) is in flight to rank i or was received at rank i, never
\* at another rank.
C7_NoCrossDelivery ==
  \A r \in Ranks :
    /\ \A k \in DOMAIN p2c[r] : p2c[r][k].to = r
    /\ \A k \in DOMAIN wgot[r] : wgot[r][k].to = r

C7_Witness ==
  /\ wpc[0] = "run" /\ wpc[1] = "run"
  /\ Len(wgot[0]) = 3 /\ Last(wgot[0]).kind = "app"
  /\ Len(wgot[1]) = 3 /\ Last(wgot[1]).kind = "app"

\* C8: on the parent channel (both directions) and on the peer channel, the
\* messages of one sender with one tag are received in the order sent, and
\* none is received while an earlier one of that sender and tag is still in
\* flight.
InOrder(log) ==
  \A i \in DOMAIN log : \A j \in DOMAIN log :
    (i < j /\ log[i].src = log[j].src /\ log[i].tag = log[j].tag) =>
      log[i].id < log[j].id

NotOvertaken(log, q) ==
  \A i \in DOMAIN log : \A k \in DOMAIN q :
    (log[i].src = q[k].src /\ log[i].tag = q[k].tag) => log[i].id < q[k].id

FromRank(r) == {k \in DOMAIN mgot : mgot[k].src = r}

C9_AllReceived ==
  /\ Len(mgot) = intercomm.size
  /\ \A r \in 0..(intercomm.size - 1) : Cardinality(FromRank(r)) = 1
  /\ \A k \in DOMAIN mgot : mgot[k].body = "done"

C9_DoneOncePerRank ==
  /\ (spawned # <<>>) ~> C9_AllReceived
  /\ [](\A r \in Ranks : Cardinality(FromRank(r)) <= 1)
  /\ [](\A k \in DOMAIN mgot : mgot[k].body = "done")

C9_Witness == C9_AllReceived /\ intercomm.size = MaxUnits /\ op = "recv"

\* C10: run() in a process that has a parent changes nothing: no Spawn, no
\* send, the communicator and the registry as before.
C10_NoRecursiveSpawn ==
  [][(~is_parent /\ op' = "run") =>
       /\ mpc' = "idle"
       /\ UNCHANGED <<intercomm, spawned, sent, reg, seqno, chans, wstate>>]_vars

C10_Witness ==
  /\ ~is_parent /\ op = "run" /\ len_self = MaxUnits
  /\ intercomm = COMM_NULL /\ spawned = <<>>

\* C11 as claimed: the communicator is null while no run() has spawned, and
\* once spawned its size is count() and does not change.
C11_NullThenSizeIsCount ==
  /\ [](spawned = <<>> => intercomm = COMM_NULL)
  /\ [](spawned # <<>> => intercomm.size = len_self)
  /\ [][intercomm # COMM_NULL => intercomm'.size = intercomm.size]_vars

\* C12 as claimed: at most one Spawn over the life of a manager, and the
\* communicator, once set, is never replaced.
C12_SpawnedOnce ==
  /\ [](Len(spawned) <= 1)
  /\ [][intercomm # COMM_NULL => intercomm' = intercomm]_vars

\* C16: at every rank the launcher receives the logging configuration
\* first and the work unit of its rank second, and the worker's run() begins
\* only when both are received.
C16_LauncherOrder ==
  \A r \in Ranks :
    /\ Len(wgot[r]) >= 1 => wgot[r][1].kind = "cfg"
    /\ Len(wgot[r]) >= 2 => wgot[r][2].kind = "unit" /\ IsUnitOf(wgot[r][2], r)
    /\ wpc[r] = "run" => Len(wgot[r]) >= 2
    /\ wpc[r] = "unit" => Len(wgot[r]) = 1
    /\ wpc[r] \in {"none", "cfg"} => Len(wgot[r]) = 0

\* Rank 0 is in its run() while the manager is still sending work units and
\* rank 1 waits for its own.
C16_Witness ==
  /\ mpc = "data" /\ wpc[0] = "run" /\ wpc[1] = "unit"
  /\ wgot[0][1].kind = "cfg" /\ wgot[0][2].kind = "unit"

\* C17: a run() in the spawning role can always take its next step whatever
\* the workers do, its steps receive nothing and leave the workers alone, and
\* it returns when 2*count() sends are issued.
ManagerStep == mpc # "idle" /\ (mpc' # mpc \/ mi' # mi)

C17_RunDoesNotWait ==
  /\ [](mpc # "idle" => ENABLED (run_send_cfg \/ run_send_data))
  /\ [](RunReturned => Len(sent) = 2 * len_self)
  /\ [][ManagerStep => UNCHANGED <<c2p, peer, mgot, wstate>>]_vars

\* run() has returned and no launcher has received anything yet.
C17_Witness ==
  /\ RunReturned /\ len_self = MaxUnits /\ Len(sent) = 2 * MaxUnits
  /\ \A r \in Ranks : wpc[r] = "cfg" /\ Len(p2c[r]) = 2

\* C18: targets, args and kwargs have the same length in every state, and
\* no step changes what is stored at an index already registered.
C18_RegisteredIsImmutable ==
  /\ [](Len(targets) = Len(args) /\ Len(args) = Len(kwargs))
  /\ [][/\ Len(targets') >= Len(targets)
        /\ \A i \in DOMAIN targets :
             /\ targets'[i] = targets[i]
             /\ args'[i] = args[i]
             /\ kwargs'[i] = kwargs[i]]_vars

\* Two different units registered, the second after a run(), and the
\* manager has since sent and received.
C18_Witness ==
  /\ targets = <<"WorkerA", "WorkerB">> /\ args = <<<<1, 2>>, <<>>>>
  /\ spawned = <<1>> /\ op = "recv" /\ mgot # <<>>

\* C13 as claimed: funcvars and allglobalvars raise for every input that
\* is neither a routine nor a class, and return no mapping for it.
C13_RejectsOtherInputs ==
  (ev.pc \in {"funcvars", "allglobalvars"} /\ ~isroutine(ev.x) /\ ~isclass(ev.x)) =>
    (ev.out.err = "ValueError" /\ ev.out.val = EmptyDict)

\* C14 as claimed: a global g bound to a module, followed in co_names by a
\* name a that is an attribute of that module (and not itself a global),
\* puts the path g.a, bound to the attribute, in the result.
AttrRefs(f) ==
  {ga \in (DOMAIN FuncTab[f].names) \X (DOMAIN FuncTab[f].names) :
     LET g == FuncTab[f].names[ga[1]]
         a == FuncTab[f].names[ga[2]]
         gd == GlobalsTab[FuncTab[f].globals]
     IN  /\ ga[1] < ga[2]
         /\ g \in DOMAIN gd /\ ismodule(gd[g])
         /\ a \notin DOMAIN gd
         /\ a \in DOMAIN AttrTab[gd[g]]}

PathOf(f, ga) == <<FuncTab[f].names[ga[1]], FuncTab[f].names[ga[2]]>>
AttrOf(f, ga) ==
  AttrTab[GlobalsTab[FuncTab[f].globals][FuncTab[f].names[ga[1]]]][FuncTab[f].names[ga[2]]]

RECURSIVE Ancestors(_)
Ancestors(c) ==
  {c} \cup UNION {Ancestors(ClassTab[c].bases[i]) : i \in DOMAIN ClassTab[c].bases}

GlobalRefs(f) ==
  {FuncTab[f].names[i] : i \in DOMAIN FuncTab[f].names} \cap
  DOMAIN GlobalsTab[FuncTab[f].globals]

C15_AllAncestorsCaptured ==
  (ev.pc = "allglobalvars" /\ isclass(ev.x)) =>
    /\ ev.out.err = "none"
    /\ \A c \in Ancestors(ev.x) : \A m \in DOMAIN ClassTab[c].methods :
         \A g \in GlobalRefs(ClassTab[c].methods[m]) : <<g>> \in DOMAIN ev.out.val

\* C derives from B derives from A and overrides A.f: the globals of A.f,
\* A.h, B.g and C.f are all there.
C15_Witness ==
  /\ ev.pc = "allglobalvars" /\ ev.x = "C"
  /\ {<<"ga">>, <<"gh">>, <<"gb">>, <<"gc">>} \subseteq DOMAIN ev.out.val

\* C19 as claimed: a non-None initial array is accepted only if it is a
\* 2-D labeled array with the same list of labels for both dimensions; for
\* any other the constructor raises ValueError and builds no table.
ValidInitial(t) == t.larry /\ Len(t.label) = 2 /\ t.label[1] = t.label[2]

C19_OnlySquareAccepted ==
  (rt.op = "init" /\ ~rt.arg.isnone) =>
    /\ rt.built <=> ValidInitial(rt.arg)
    /\ ~rt.built => rt.err = "ValueError"

\* C20: a table that started empty has, once assigned to, two dimensions
\* with the same labels, which are the identifiers used as row or column so
\* far; and an assignment rejected for its key leaves the table as it was.
C20_StaysSquare ==
  /\ [](rt.arg.isnone =>
          IF rt.data.none THEN rt.used = {}
          ELSE /\ Len(rt.data.label) = 2
               /\ rt.data.label[1] = rt.data.label[2]
               /\ Range(rt.data.label[1]) = rt.used
               /\ DOMAIN rt.data.cells = rt.used \X rt.used)
  /\ [][(rt'.op = "setitem" /\ rt'.err \in {"ValueError", "KeyError"}) =>
          rt'.data = rt.data /\ rt'.used = rt.used]_vars

\* A table grown from empty to all identifiers, one of them added by a
\* later assignment, and then an assignment rejected.
C20_Witness ==
  /\ rt.arg.isnone /\ rt.used = Ids /\ Len(rt.data.label[1]) = MaxIds
  /\ rt.data.cells[<<1, 1>>] = 1 /\ rt.data.cells[<<MaxIds, 1>>] = 0
  /\ rt.op = "setitem" /\ rt.err = "KeyError"
====
